---- MODULE Spec2Model ----
(***************************************************************************)
(* VideoConverter/main.py: class VideoToHexConverter.                       *)
(*                                                                         *)
(* A converter object is driven as main() drives it: load_video,           *)
(* process_frames, save_hex_data(format_type); get_stats may be called at  *)
(* any point.  After a completed run the pipeline may be run once more,    *)
(* on the same object or on a newly constructed one.                       *)
(*                                                                         *)
(* Text is a sequence of one-character strings, so that formatting and     *)
(* slicing (f"0x{pixel:02X}", hex_byte[2:]) are computed, not assumed.     *)
(* original_fps is a float in the source; here it is a rational with       *)
(* denominator FpsDen, held as its numerator.                              *)
(***************************************************************************)
EXTENDS Integers, Sequences, FiniteSets, TLC

----------------------------------------------------------------------------
(* Bounds of the model *)

MaxFrames == 3       \* frames a source yields, at most
MaxRuns == 2         \* pipeline runs in one behaviour
MaxTargetFps == 2    \* target_fps ranges over 0..MaxTargetFps

FpsDen == 2          \* original_fps = numerator / FpsDen
OriginalFpsNums == {0, 5, 9}
Dims == {<<1, 1, 1>>, <<2, 2, 2>>, <<17, 1, 1>>}   \* <<width, height, scale>>,
                     \* the original size being the target size * scale
Seeds == {0, 250}    \* frame i of a source is the test pattern seed + 97 * i
Formats == {"c_array", "plain_hex", "python_list", "xml"}

----------------------------------------------------------------------------
(* Text *)

RECURSIVE Cat(_)
Cat(ss) == IF ss = <<>> THEN <<>> ELSE Head(ss) \o Cat(Tail(ss))

DecDigits == <<"0", "1", "2", "3", "4", "5", "6", "7", "8", "9">>
HexDigits == <<"0", "1", "2", "3", "4", "5", "6", "7", "8", "9",
               "A", "B", "C", "D", "E", "F">>

\* f"{n}" for an int n >= 0
RECURSIVE ToDec(_)
ToDec(n) == IF n < 10 THEN <<DecDigits[n + 1]>>
            ELSE ToDec(n \div 10) \o <<DecDigits[(n % 10) + 1]>>

\* f"{n:X}" for an int n >= 0
RECURSIVE ToHex(_)
ToHex(n) == IF n < 16 THEN <<HexDigits[n + 1]>>
            ELSE ToHex(n \div 16) \o <<HexDigits[(n % 16) + 1]>>

\* f"{n:02X}": zero-padded to a minimum width of 2
Hex02X(n) == IF Len(ToHex(n)) < 2 THEN <<"0">> \o ToHex(n) ELSE ToHex(n)

\* f"0x{pixel:02X}"
FormatHex(pixel) == <<"0", "x">> \o Hex02X(pixel)

\* hex_byte[2:]
StripPrefix(hex_byte) == SubSeq(hex_byte, 3, Len(hex_byte))

S_VideoDataC == <<"/", "/", " ", "V", "i", "d", "e", "o", " ", "d", "a", "t", "a", ":", " ">>
S_VideoDataHash == <<"#", " ", "V", "i", "d", "e", "o", " ", "d", "a", "t", "a", ":", " ">>
S_frames == <<" ", "f", "r", "a", "m", "e", "s", ",", " ">>
S_commaSp == <<",", " ">>
S_channels == <<" ", "c", "h", "a", "n", "n", "e", "l", "(", "s", ")", "\n">>
S_GeneratedC == <<"/", "/", " ", "G", "e", "n", "e", "r", "a", "t", "e", "d", " ", "f", "r", "o", "m", ":", " ">>
S_GeneratedHash == <<"#", " ", "G", "e", "n", "e", "r", "a", "t", "e", "d", " ", "f", "r", "o", "m", ":", " ">>
S_nlnl == <<"\n", "\n">>
S_decl == <<"c", "o", "n", "s", "t", " ", "u", "n", "s", "i", "g", "n", "e", "d", " ", "c", "h", "a", "r", " ", "v", "i", "d", "e", "o", "_", "d", "a", "t", "a", "[">>
S_declMid == <<"]", "[">>
S_declEnd == <<"]", " ", "=", " ", "{", "\n">>
S_FrameC == <<" ", " ", "/", "/", " ", "F", "r", "a", "m", "e", " ">>
S_openC == <<"\n", " ", " ", "{">>
S_wrapC == <<"\n", " ", " ", " ", " ">>
S_closeC == <<"\n", " ", " ", "}">>
S_footC == <<"}", ";", "\n", "\n">>
S_defCount == <<"#", "d", "e", "f", "i", "n", "e", " ", "F", "R", "A", "M", "E", "_", "C", "O", "U", "N", "T", " ">>
S_defWidth == <<"#", "d", "e", "f", "i", "n", "e", " ", "F", "R", "A", "M", "E", "_", "W", "I", "D", "T", "H", " ">>
S_defHeight == <<"#", "d", "e", "f", "i", "n", "e", " ", "F", "R", "A", "M", "E", "_", "H", "E", "I", "G", "H", "T", " ">>
S_defChannels == <<"#", "d", "e", "f", "i", "n", "e", " ", "F", "R", "A", "M", "E", "_", "C", "H", "A", "N", "N", "E", "L", "S", " ">>
S_FrameHash == <<"#", " ", "F", "r", "a", "m", "e", " ">>
S_listOpen == <<"v", "i", "d", "e", "o", "_", "d", "a", "t", "a", " ", "=", " ", "[", "\n">>
S_FramePy == <<" ", " ", " ", " ", "#", " ", "F", "r", "a", "m", "e", " ">>
S_openPy == <<"\n", " ", " ", " ", " ", "[">>
S_wrapPy == <<"\n", " ", " ", " ", " ", " ">>
S_listClose == <<"]", "\n">>
NL == <<"\n">>

\* the path the converter is constructed with
input_path == <<"c", "l", "i", "p", ".", "m", "p", "4">>

----------------------------------------------------------------------------
(* The frame source (cv2.VideoCapture) and the image operations (cv2)      *)

\* The raw frame a source of size oh x ow yields for a seed: a 3-axis array
\* (rows, columns, <<B, G, R>>), as VideoCapture.read() returns it.
RawFrame(seed, oh, ow) ==
    [ndim |-> 3,
     px |-> [r \in 1..oh |-> [c \in 1..ow |->
               [k \in 1..3 |-> (seed + 7 * r + 13 * c + 101 * k) % 256]]]]

RECURSIVE SumSeq(_)
SumSeq(s) == IF s = <<>> THEN 0 ELSE Head(s) + SumSeq(Tail(s))

\* cv2.resize(frame, (width, height), interpolation=cv2.INTER_AREA) for a
\* source whose size is an integer multiple of the target: each destination
\* pixel is the rounded mean of the fy x fx block it covers.
Resize(frame, w, h) ==
    LET oh == Len(frame.px)
        ow == Len(frame.px[1])
        fy == oh \div h
        fx == ow \div w
        area == fy * fx
        Block(r, c, k) ==
            [i \in 1..area |->
                frame.px[(r - 1) * fy + ((i - 1) \div fx) + 1]
                        [(c - 1) * fx + ((i - 1) % fx) + 1][k]]
    IN  [ndim |-> frame.ndim,
         px |-> [r \in 1..h |-> [c \in 1..w |->
                   [k \in 1..3 |->
                      (SumSeq(Block(r, c, k)) + (area \div 2)) \div area]]]]

\* cv2.cvtColor(resized, cv2.COLOR_BGR2GRAY): 14-bit fixed-point luma
CvtColor(resized) ==
    [r \in 1..Len(resized.px) |-> [c \in 1..Len(resized.px[r]) |->
        (resized.px[r][c][1] * 1868 + resized.px[r][c][2] * 9617
           + resized.px[r][c][3] * 4899 + 8192) \div 16384]]

----------------------------------------------------------------------------
(* State *)

VARIABLES
    source,          \* what input_path names: [exists, opens, fps, frames, scale]
    width, height, target_fps, grayscale,     \* self.width ... self.grayscale
    frames_data,     \* self.frames_data
    cap,             \* self.cap: [opened, pos, reads]
    original_fps, total_frames, original_width, original_height,
    frame_skip, frame_count, processed_count,  \* locals of process_frames
    format_type,     \* the argument of the last save_hex_data call
    outFile,         \* the file at self.output_path: [exists, text]
    report,          \* what the last call returned, if it was get_stats
    pc, err, run     \* the driver: position, exception raised, run number

vars == <<source, width, height, target_fps, grayscale, frames_data, cap,
          original_fps, total_frames, original_width, original_height,
          frame_skip, frame_count, processed_count, format_type, outFile,
          report, pc, err, run>>

config == <<source, width, height, target_fps, grayscale>>
metadata == <<original_fps, total_frames, original_width, original_height>>
locals == <<frame_skip, frame_count, processed_count>>

channels == IF grayscale THEN 1 ELSE 3

NoCap == [opened |-> FALSE, pos |-> 0, reads |-> 0]
NoFile == [exists |-> FALSE, text |-> <<>>]
NoReport == [kind |-> "none", frames |-> 0, channels |-> 0,
             bytes_per_frame |-> 0, total_bytes |-> 0, kb_hundredths |-> 0]

\* the frame sequences a source may hold
Videos ==
    {[i \in 1..n |-> (b + 97 * i) % 256] : n \in 0..MaxFrames, b \in Seeds}

Sources ==
    {[exists |-> FALSE, opens |-> FALSE, fps |-> 0, frames |-> <<>>, scale |-> 1],
     [exists |-> TRUE, opens |-> FALSE, fps |-> 0, frames |-> <<>>, scale |-> 1]}
    \cup [exists : {TRUE}, opens : {TRUE}, fps : OriginalFpsNums,
          frames : Videos, scale : {d[3] : d \in Dims}]

----------------------------------------------------------------------------
(* _process_single_frame *)

\* for row in gray: for pixel in row: hex_data.append(f"0x{pixel:02X}")
GrayHexData(gray) ==
    Cat([r \in 1..Len(gray) |-> [c \in 1..Len(gray[r]) |-> FormatHex(gray[r][c])]])

\* for row in resized: for pixel in row: b, g, r = pixel; hex_data.extend(...)
ColorHexData(resized) ==
    Cat([r \in 1..Len(resized.px) |->
           Cat([c \in 1..Len(resized.px[r]) |->
                  <<FormatHex(resized.px[r][c][1]),
                    FormatHex(resized.px[r][c][2]),
                    FormatHex(resized.px[r][c][3])>>])])

_process_single_frame_NoGray(frame) ==
    ColorHexData(Resize(frame, width, height))

_process_single_frame(frame) ==
    LET resized == Resize(frame, width, height)
    IN  IF grayscale
        THEN GrayHexData(IF resized.ndim = 3 THEN CvtColor(resized)
                                             ELSE resized.px)
        ELSE ColorHexData(resized)

----------------------------------------------------------------------------
(* process_frames: the sampling arithmetic *)

\* int(x) of the float num / den, den > 0: truncation toward zero
TruncDiv(num, den) == IF num >= 0 THEN num \div den ELSE -((-num) \div den)

Max(a, b) == IF a >= b THEN a ELSE b

\* max(1, int(self.original_fps / self.target_fps)), target_fps > 0
FrameSkipRoundUp(fps_num, target) == Max(1, TruncDiv(fps_num, FpsDen * target) + 1)
FrameSkip(fps_num, target) == Max(1, TruncDiv(fps_num, FpsDen * target))

\* frame_count % frame_skip == 0
Retained(count, skip) == count % skip = 0

----------------------------------------------------------------------------
(* The writers of save_hex_data *)

WrapEvery == 16

CArrayElementTrailingComma(j, hex_byte, n) ==
    (IF j % WrapEvery = 0 THEN S_wrapC ELSE <<>>) \o hex_byte \o S_commaSp

\* the body of the inner loop: element j (0-based) of a frame of n elements
CArrayElement(j, hex_byte, n) ==
    (IF j % WrapEvery = 0 THEN S_wrapC ELSE <<>>)
      \o hex_byte
      \o (IF j < n - 1 THEN S_commaSp ELSE <<>>)

\* the body of the outer loop: frame i (0-based) of F frames
CArrayFrame(i, frame, F) ==
    S_FrameC \o ToDec(i) \o S_openC
      \o Cat([j \in 1..Len(frame) |-> CArrayElement(j - 1, frame[j], Len(frame))])
      \o S_closeC
      \o (IF i < F - 1 THEN <<",">> ELSE <<>>)
      \o NL

_write_c_array_format ==
    LET F == Len(frames_data)
    IN  S_VideoDataC \o ToDec(F) \o S_frames \o ToDec(width) \o <<"x">>
          \o ToDec(height) \o S_commaSp \o ToDec(channels) \o S_channels
          \o S_GeneratedC \o input_path \o S_nlnl
          \o S_decl \o ToDec(F) \o S_declMid
          \o ToDec(width * height * channels) \o S_declEnd
          \o Cat([i \in 1..F |-> CArrayFrame(i - 1, frames_data[i], F)])
          \o S_footC
          \o S_defCount \o ToDec(F) \o NL
          \o S_defWidth \o ToDec(width) \o NL
          \o S_defHeight \o ToDec(height) \o NL
          \o S_defChannels \o ToDec(channels) \o NL

PlainHexElementWrapFirst(j, hex_byte) ==
    (IF j % WrapEvery = 0 THEN NL ELSE <<>>) \o StripPrefix(hex_byte) \o <<" ">>

PlainHexElement(j, hex_byte) ==
    (IF j % WrapEvery = 0 /\ j > 0 THEN NL ELSE <<>>)
      \o StripPrefix(hex_byte) \o <<" ">>

PlainHexFrame(i, frame) ==
    S_FrameHash \o ToDec(i) \o NL
      \o Cat([j \in 1..Len(frame) |-> PlainHexElement(j - 1, frame[j])])
      \o S_nlnl

_write_plain_hex_format ==
    LET F == Len(frames_data)
    IN  S_VideoDataHash \o ToDec(F) \o S_frames \o ToDec(width) \o <<"x">>
          \o ToDec(height) \o NL
          \o S_GeneratedHash \o input_path \o S_nlnl
          \o Cat([i \in 1..F |-> PlainHexFrame(i - 1, frames_data[i])])

PythonListElement(j, hex_byte, n) ==
    (IF j % WrapEvery = 0 /\ j > 0 THEN S_wrapPy ELSE <<>>)
      \o hex_byte
      \o (IF j < n - 1 THEN S_commaSp ELSE <<>>)

PythonListFrame(i, frame, F) ==
    S_FramePy \o ToDec(i) \o S_openPy
      \o Cat([j \in 1..Len(frame) |->
                PythonListElement(j - 1, frame[j], Len(frame))])
      \o <<"]">>
      \o (IF i < F - 1 THEN <<",">> ELSE <<>>)
      \o NL

_write_python_list_format ==
    LET F == Len(frames_data)
    IN  S_VideoDataHash \o ToDec(F) \o S_frames \o ToDec(width) \o <<"x">>
          \o ToDec(height) \o NL
          \o S_GeneratedHash \o input_path \o S_nlnl
          \o S_listOpen
          \o Cat([i \in 1..F |-> PythonListFrame(i - 1, frames_data[i], F)])
          \o S_listClose

----------------------------------------------------------------------------
(* get_stats *)

\* f"{total_bytes / 1024:.2f}" as a count of hundredths, ties to even
KbHundredths(total_bytes) ==
    LET q == (total_bytes * 100) \div 1024
        rem == (total_bytes * 100) % 1024
    IN  IF rem * 2 > 1024 \/ (rem * 2 = 1024 /\ q % 2 = 1) THEN q + 1 ELSE q

StatsNoChannels ==
    IF frames_data = <<>>
    THEN [NoReport EXCEPT !.kind = "No data processed yet"]
    ELSE [kind |-> "Conversion Statistics", frames |-> Len(frames_data),
          channels |-> channels, bytes_per_frame |-> width * height,
          total_bytes |-> Len(frames_data) * width * height,
          kb_hundredths |-> KbHundredths(Len(frames_data) * width * height)]

Stats ==
    IF frames_data = <<>>
    THEN [NoReport EXCEPT !.kind = "No data processed yet"]
    ELSE LET bytes_per_frame == width * height * channels
             total_bytes == Len(frames_data) * bytes_per_frame
         IN  [kind |-> "Conversion Statistics", frames |-> Len(frames_data),
              channels |-> channels, bytes_per_frame |-> bytes_per_frame,
              total_bytes |-> total_bytes,
              kb_hundredths |-> KbHundredths(total_bytes)]

----------------------------------------------------------------------------
(* Operations *)

Init ==
    /\ source \in Sources
    /\ \E d \in Dims : width = d[1] /\ height = d[2] /\ source.scale = d[3]
    /\ target_fps \in 0..MaxTargetFps
    /\ grayscale \in BOOLEAN
    /\ frames_data = <<>>
    /\ cap = NoCap
    /\ original_fps = 0 /\ total_frames = 0
    /\ original_width = 0 /\ original_height = 0
    /\ frame_skip = 0 /\ frame_count = 0 /\ processed_count = 0
    /\ format_type = "none"
    /\ outFile = NoFile
    /\ report = NoReport
    /\ pc = "constructed" /\ err = "none" /\ run = 1

\* VideoToHexConverter(...) with the same arguments, after a completed run:
\* a new object replaces the converter
__init__ ==
    /\ pc = "saved" /\ run < MaxRuns
    /\ frames_data' = <<>>
    /\ cap' = NoCap
    /\ original_fps' = 0 /\ total_frames' = 0
    /\ original_width' = 0 /\ original_height' = 0
    /\ pc' = "constructed" /\ run' = run + 1
    /\ report' = NoReport
    /\ UNCHANGED <<config, locals, format_type, outFile, err>>

load_video_NoChecks ==
    /\ \/ pc = "constructed"
       \/ pc = "saved" /\ run < MaxRuns
    /\ run' = IF pc = "saved" THEN run + 1 ELSE run
    /\ report' = NoReport
    /\ cap' = [opened |-> source.opens, pos |-> 0, reads |-> 0]
    /\ original_fps' = source.fps
    /\ total_frames' = Len(source.frames)
    /\ original_width' = width * source.scale
    /\ original_height' = height * source.scale
    /\ pc' = "loaded"
    /\ UNCHANGED <<config, frames_data, locals, format_type, outFile, err>>

\* On a constructed converter, or again on one whose run has completed.
load_video ==
    /\ \/ pc = "constructed"
       \/ pc = "saved" /\ run < MaxRuns
    /\ run' = IF pc = "saved" THEN run + 1 ELSE run
    /\ report' = NoReport
    /\ IF ~source.exists
       THEN /\ pc' = "aborted" /\ err' = "FileNotFoundError"
            /\ UNCHANGED <<cap, metadata>>
       ELSE /\ cap' = [opened |-> source.opens, pos |-> 0, reads |-> 0]
            /\ IF ~source.opens
               THEN /\ pc' = "aborted" /\ err' = "ValueError: Could not open"
                    /\ UNCHANGED metadata
               ELSE /\ original_fps' = source.fps
                    /\ total_frames' = Len(source.frames)
                    /\ original_width' = width * source.scale
                    /\ original_height' = height * source.scale
                    /\ pc' = "loaded" /\ UNCHANGED err
    /\ UNCHANGED <<config, frames_data, locals, format_type, outFile>>

\* process_frames up to the loop
process_frames_enter ==
    /\ pc = "loaded"
    /\ report' = NoReport
    /\ IF target_fps = 0
       THEN /\ pc' = "aborted" /\ err' = "ZeroDivisionError"
            /\ UNCHANGED locals
       ELSE /\ frame_skip' = FrameSkip(original_fps, target_fps)
            /\ frame_count' = 0
            /\ processed_count' = 0
            /\ pc' = "processing" /\ UNCHANGED err
    /\ UNCHANGED <<config, frames_data, cap, metadata, format_type, outFile, run>>

\* one iteration of the loop: cap.read() returned a frame
process_frames_iterate ==
    /\ pc = "processing"
    /\ cap.opened /\ cap.pos < Len(source.frames)
    /\ LET frame == RawFrame(source.frames[cap.pos + 1],
                             original_height, original_width)
       IN  IF Retained(frame_count, frame_skip)
           THEN /\ frames_data' = Append(frames_data, _process_single_frame(frame))
                /\ processed_count' = processed_count + 1
           ELSE UNCHANGED <<frames_data, processed_count>>
    /\ frame_count' = frame_count + 1
    /\ cap' = [cap EXCEPT !.pos = @ + 1, !.reads = @ + 1]
    /\ report' = NoReport
    /\ UNCHANGED <<config, metadata, frame_skip, format_type, outFile, pc, err, run>>

\* cap.read() returned ret = False: break, cap.release()
process_frames_exit ==
    /\ pc = "processing"
    /\ ~(cap.opened /\ cap.pos < Len(source.frames))
    /\ cap' = [cap EXCEPT !.opened = FALSE, !.reads = @ + 1]
    /\ pc' = "processed"
    /\ report' = NoReport
    /\ UNCHANGED <<config, frames_data, metadata, locals, format_type, outFile,
                   err, run>>

\* open(self.output_path, 'w') creates or truncates the file before the
\* format is looked at
save_hex_data(fmt) ==
    /\ pc = "processed"
    /\ format_type' = fmt
    /\ report' = NoReport
    /\ IF fmt = "c_array"
       THEN /\ outFile' = [exists |-> TRUE, text |-> _write_c_array_format]
            /\ pc' = "saved" /\ UNCHANGED err
       ELSE IF fmt = "plain_hex"
       THEN /\ outFile' = [exists |-> TRUE, text |-> _write_plain_hex_format]
            /\ pc' = "saved" /\ UNCHANGED err
       ELSE IF fmt = "python_list"
       THEN /\ outFile' = [exists |-> TRUE, text |-> _write_python_list_format]
            /\ pc' = "saved" /\ UNCHANGED err
       ELSE /\ outFile' = [exists |-> TRUE, text |-> <<>>]
            /\ pc' = "aborted" /\ err' = "ValueError: Unknown format type"
    /\ UNCHANGED <<config, frames_data, cap, metadata, locals, run>>

get_stats ==
    /\ report' = Stats
    /\ UNCHANGED <<config, frames_data, cap, metadata, locals, format_type,
                   outFile, pc, err, run>>

Next ==
    \/ __init__
    \/ load_video
    \/ process_frames_enter
    \/ process_frames_iterate
    \/ process_frames_exit
    \/ \E fmt \in Formats : save_hex_data(fmt)
    \/ get_stats

Spec == Init /\ [][Next]_vars

----------------------------------------------------------------------------
(* Reading a written text back *)

HexDigitSet == {HexDigits[i] : i \in 1..16}

Ceil(n, d) == (n + d - 1) \div d

Min(a, b) == IF a <= b THEN a ELSE b

\* the positions of character ch in text, in increasing order
RECURSIVE Scan(_, _, _, _)
Scan(text, ch, lo, hi) ==
    IF lo > hi THEN <<>>
    ELSE IF lo = hi THEN (IF text[lo] = ch THEN <<lo>> ELSE <<>>)
    ELSE Scan(text, ch, lo, (lo + hi) \div 2)
           \o Scan(text, ch, ((lo + hi) \div 2) + 1, hi)

Positions(text, ch) == Scan(text, ch, 1, Len(text))

\* text.split("\n")
SplitLines(text) ==
    LET nl == Positions(text, "\n")
        k == Len(nl)
    IN  [m \in 1..(k + 1) |->
           SubSeq(text,
                  IF m = 1 THEN 1 ELSE nl[m - 1] + 1,
                  IF m = k + 1 THEN Len(text) ELSE nl[m] - 1)]

\* the first position after the header, which ends at the first blank line
BodyStart(text) ==
    2 + CHOOSE p \in 1..(Len(text) - 1) :
          /\ text[p] = "\n" /\ text[p + 1] = "\n"
          /\ \A q \in 1..(p - 1) : ~(text[q] = "\n" /\ text[q + 1] = "\n")

\* the number a sequence of decimal digits writes
RECURSIVE ParseDec(_)
ParseDec(ds) ==
    IF ds = <<>> THEN 0
    ELSE 10 * ParseDec(SubSeq(ds, 1, Len(ds) - 1))
           + (CHOOSE d \in 0..9 : DecDigits[d + 1] = ds[Len(ds)])

\* the second dimension of "video_data[F][n]" in an ArrayLiteral text
DeclaredFrameLen(text) ==
    LET a == CHOOSE p \in 1..(Len(text) - 1) :
               /\ text[p] = "]" /\ text[p + 1] = "["
               /\ \A q \in 1..(p - 1) : ~(text[q] = "]" /\ text[q + 1] = "[")
        b == CHOOSE p \in (a + 2)..Len(text) :
               /\ text[p] = "]"
               /\ \A q \in (a + 2)..(p - 1) : text[q] # "]"
    IN  ParseDec(SubSeq(text, a + 2, b - 1))

----------------------------------------------------------------------------
(* Claims *)

\* C1: with an unrecognized format the run fails with the unknown-format
\* error before any frame is read: no cap.read() call and no append to
\* frames_data has happened when the error is raised.
C1_UnknownFormatFailsBeforeReading ==
    (err = "ValueError: Unknown format type" /\ source.fps > 0)
        => (cap.reads = 0 /\ processed_count = 0)

\* C2: when the input path does not exist, or exists but cannot be opened,
\* load_video raises, the run is aborted, and the output file is never
\* created or written.
C2_LoadFailureWritesNothing ==
    /\ (pc # "constructed" /\ ~source.exists)
          => (pc = "aborted" /\ err = "FileNotFoundError")
    /\ (pc # "constructed" /\ source.exists /\ ~source.opens)
          => (pc = "aborted" /\ err = "ValueError: Could not open")
    /\ (err \in {"FileNotFoundError", "ValueError: Could not open"})
          => (~outFile.exists /\ frames_data = <<>> /\ cap.reads = 0)

C2_Witness ==
    pc = "aborted" /\ err = "FileNotFoundError" /\ ~source.exists

\* C3: a source whose metadata reports original_fps <= 0 is an error: the
\* pipeline aborts, no frame is retained and no output file is written.
C3_NonPositiveFpsAborts ==
    (source.exists /\ source.opens /\ source.fps <= 0)
        => /\ frames_data = <<>>
           /\ ~outFile.exists
           /\ pc \notin {"processed", "saved"}

\* the encodings of the source frames whose 0-based index is a multiple of
\* skip, in increasing index order
ExpectedFrames(skip) ==
    [k \in 1..Ceil(Len(source.frames), skip) |->
        _process_single_frame(RawFrame(source.frames[(k - 1) * skip + 1],
                                       height * source.scale,
                                       width * source.scale))]

\* floor(original_fps / target_fps) as the largest k with k * target <= fps
FloorRatio(fps_num, target) ==
    CHOOSE k \in 0..fps_num :
        /\ k * FpsDen * target <= fps_num
        /\ fps_num < (k + 1) * FpsDen * target

\* C4: after process_frames has read the source to end-of-stream,
\* frames_data holds exactly the encodings of the source frames whose index
\* i satisfies i mod skip = 0, in increasing order, each exactly once.
C4_FramesDataIsTheSample ==
    (pc = "processed" /\ source.fps > 0)
        => frames_data = ExpectedFrames(Max(1, FloorRatio(source.fps, target_fps)))

C6_SecondRunWritesSameText ==
    [][(pc = "processed" /\ pc' = "saved" /\ run > 1 /\ source.fps > 0
          /\ format_type' = format_type)
        => (outFile' = outFile)]_vars

\* C7: every frame appended to frames_data has exactly
\* width * height * channels elements, the per-frame dimension that the
\* ArrayLiteral header declares.
C7_FrameLengthExact ==
    /\ \A i \in 1..Len(frames_data) :
          Len(frames_data[i]) = width * height * (IF grayscale THEN 1 ELSE 3)
    /\ (pc = "saved" /\ format_type = "c_array")
          => /\ DeclaredFrameLen(outFile.text)
                  = width * height * (IF grayscale THEN 1 ELSE 3)
             /\ \A i \in 1..Len(frames_data) :
                  Len(frames_data[i]) = DeclaredFrameLen(outFile.text)

C7_Witness ==
    /\ pc = "saved" /\ format_type = "c_array"
    /\ Len(frames_data) >= 2 /\ grayscale /\ width * height > 1

\* the part of the written file after its header
Body == SubSeq(outFile.text, BodyStart(outFile.text), Len(outFile.text))

\* the character closing a frame block in the format written
Closer == IF format_type = "c_array" THEN "}" ELSE "]"

\* the comma placement of a body of F blocks of n elements each
CommasPlaced(body, closer, F, n) ==
    LET xs == Positions(body, "x")        \* one per element "0xHH"
        cl == Positions(body, closer)     \* F blocks, then the outer one
        commas == {p \in 1..Len(body) : body[p] = ","}
        elemCommas == {xs[e] + 3 : e \in {d \in 1..Len(xs) : d % n # 0}}
        blockCommas == {cl[k] + 1 : k \in 1..(F - 1)}
    IN  /\ Len(xs) = F * n
        /\ Len(cl) = F + 1
        /\ \A e \in 1..Len(xs) : (body[xs[e] + 3] = ",") <=> (e % n # 0)
        /\ \A k \in 1..Len(cl) :
              (cl[k] < Len(body) /\ body[cl[k] + 1] = ",") <=> (k < F)
        /\ commas = elemCommas \cup blockCommas
        /\ Cardinality(elemCommas) = F * (n - 1)
        /\ Cardinality(blockCommas) = F - 1

\* C8: in the ArrayLiteral and ListLiteral outputs with F >= 1 frames of
\* n >= 1 elements, a comma follows every element except the last of its
\* block and follows the closing delimiter of every block except the last:
\* F * (n - 1) element commas, F - 1 block commas, and no others.
C8_CommaPlacement ==
    (pc = "saved" /\ format_type \in {"c_array", "python_list"}
       /\ Len(frames_data) >= 1)
        => CommasPlaced(Body, Closer, Len(frames_data), Len(frames_data[1]))

C8_Witness ==
    /\ pc = "saved" /\ format_type = "python_list"
    /\ Len(frames_data) >= 2 /\ Len(frames_data[1]) > WrapEvery

\* the lines PlainHex writes for one frame: its elements in rows of 16,
\* each element two uppercase hex digits and a space
ExpectedHexRows(frame) ==
    [m \in 1..Ceil(Len(frame), WrapEvery) |->
        Cat([j \in 1..Min(WrapEvery, Len(frame) - (m - 1) * WrapEvery) |->
               <<frame[(m - 1) * WrapEvery + j][3],
                 frame[(m - 1) * WrapEvery + j][4], " ">>])]

\* C9: in PlainHex output every element is a bare two-digit uppercase hex
\* value followed by one space, and a newline precedes element j of a frame
\* exactly when j > 0 and j mod 16 = 0; a frame of 17 bytes has exactly one
\* newline between its elements, after the 16th.
C9_PlainHexLayout ==
    (pc = "saved" /\ format_type = "plain_hex")
        => LET lines == SplitLines(Body)
               rows == [i \in 1..Len(frames_data) |->
                          <<S_FrameHash \o ToDec(i - 1)>>
                            \o ExpectedHexRows(frames_data[i])
                            \o <<<<>>>>]
           IN  /\ \A i \in 1..Len(frames_data) :
                    \A j \in 1..Len(frames_data[i]) :
                       /\ Len(frames_data[i][j]) = 4
                       /\ frames_data[i][j][3] \in HexDigitSet
                       /\ frames_data[i][j][4] \in HexDigitSet
               /\ lines = Cat(rows) \o <<<<>>>>
               /\ \A i \in 1..Len(frames_data) :
                    (Len(frames_data[i]) = 17)
                       => /\ Len(ExpectedHexRows(frames_data[i])) = 2
                          /\ Len(ExpectedHexRows(frames_data[i])[1]) = 3 * 16

C9_Witness ==
    /\ pc = "saved" /\ format_type = "plain_hex"
    /\ Len(frames_data) >= 1 /\ Len(frames_data[1]) = 17

\* C10: get_stats reports channels = 1 if grayscale else 3,
\* bytes_per_frame = width * height * channels and
\* total_bytes = frame_count * bytes_per_frame with
\* frame_count = len(frames_data), returns the empty-state report exactly
\* when frames_data is empty, and changes neither frames_data nor the
\* output file.
C10_StatsReport ==
    [][(report' # NoReport)
        => /\ frames_data' = frames_data
           /\ outFile' = outFile
           /\ (report'.kind = "No data processed yet") <=> (Len(frames_data) = 0)
           /\ (Len(frames_data) > 0)
                => /\ report'.kind = "Conversion Statistics"
                   /\ report'.frames = Len(frames_data)
                   /\ report'.channels = (IF grayscale THEN 1 ELSE 3)
                   /\ report'.bytes_per_frame
                        = width * height * (IF grayscale THEN 1 ELSE 3)
                   /\ report'.total_bytes
                        = Len(frames_data) * width * height
                            * (IF grayscale THEN 1 ELSE 3)]_vars

C10_Witness ==
    /\ report.kind = "Conversion Statistics"
    /\ report.frames >= 2 /\ ~grayscale /\ pc = "processing"

====
